---------------------------- MODULE Spec2Model ----------------------------
(***************************************************************************)
(* Calorie Advisor (src/app.py): a Streamlit page.  Every user event on a  *)
(* widget re-runs main() from the top with the widgets' current values.    *)
(* main() reads the upload slot, shows the preview and the action button,  *)
(* and on a click builds the request, blocks in get_gemini_response and    *)
(* embeds the formatted response in the page.                              *)
(*                                                                         *)
(* A script run is one action up to the blocking service call and one      *)
(* action from the call's return to the end of main().  Events arriving    *)
(* while the script is blocked are coalesced into one queued rerun.        *)
(*                                                                         *)
(* Optional values are sequences: None is <<>>, a present value x is <<x>>.*)
(* Texts are sequences of characters; NL, BULLET and DIAMOND name the      *)
(* characters "\n", U+2022 and U+25C6.                                     *)
(***************************************************************************)
EXTENDS Integers, Sequences, FiniteSets, TLC

VARIABLES
    picker,          \* files held by the upload widget (line 68)
    pending,         \* rerun queued while the script is busy
    pc,              \* "idle": no script running; "calling": blocked at line 114
    trigger,         \* button value handed to the current/last run
    uploaded_file,   \* main's local uploaded_file (line 68)
    analyze_button,  \* main's local analyze_button (line 82), FALSE if unset
    inflight,        \* requests handed to generate_content and not yet answered
    outcome,         \* what the service did for the current/last run's call
    response,        \* main's local response (line 114)
    page,            \* elements rendered by the current/last run
    clicks,          \* clicks on the action button so far
    calls,           \* invocations of get_gemini_response so far
    attempts,        \* invocations of generate_content in the current/last call
    failed,          \* some call so far ended in a caught exception
    served           \* the request answered most recently

vars == <<picker, pending, pc, trigger, uploaded_file, analyze_button,
          inflight, outcome, response, page, clicks, calls, attempts,
          failed, served>>

(***************************************************************************)
(* Bounds                                                                  *)
(***************************************************************************)
MaxLen == 2
MaxClicks == 2

(***************************************************************************)
(* Values                                                                  *)
(***************************************************************************)
None == <<>>
Some(x) == <<x>>

NL == "\n"
BULLET == "U+2022"
DIAMOND == "U+25C6"
BR == <<"<", "b", "r", ">">>

Chars == {"A", NL, BULLET, "<"}

RECURSIVE SeqsUpTo(_, _)
SeqsUpTo(S, n) ==
    IF n = 0 THEN {<<>>}
    ELSE LET shorter == SeqsUpTo(S, n - 1)
         IN  shorter \cup {Append(s, c) : s \in shorter, c \in S}

Texts == SeqsUpTo(Chars, MaxLen)

\* type=["jpg", "jpeg", "png"]
AcceptedTypes == {"jpg", "jpeg", "png"}

Extensions == AcceptedTypes \cup {"gif"}

MimeOf(ext) ==
    CASE ext = "png" -> "image/png"
      [] ext = "gif" -> "image/gif"
      [] OTHER       -> "image/jpeg"

\* two decodable byte strings (JPEG and PNG signatures) and one that is no image
Contents == {<<255, 216>>, <<137, 80>>, <<0>>}

CandidateFiles ==
    {[ext |-> e, type |-> MimeOf(e), data |-> d] : e \in Extensions, d \in Contents}

\* PIL.Image.open identifies the format from the bytes and raises otherwise
Decodable(f) == f.data[1] \in {255, 137}

prompt == "Please analyze this food image and provide: ..."

ErrorPrefix == <<"E", "r", "r", "o", "r", ":", " ">>

FailurePoints == {"construct", "generate", "text"}

Outcomes ==
    {[kind |-> "ok", at |-> "return", msg |-> t] : t \in Texts}
    \cup {[kind |-> "fail", at |-> a, msg |-> m] : a \in FailurePoints, m \in Texts}

(***************************************************************************)
(* Pure functions of the program                                           *)
(***************************************************************************)
StartsWith(s, p) == Len(s) >= Len(p) /\ SubSeq(s, 1, Len(p)) = p

\* str.replace(old, new) for a non-empty old: left to right, non-overlapping
RECURSIVE Replace(_, _, _)
Replace(s, old, new) ==
    IF s = <<>> THEN <<>>
    ELSE IF StartsWith(s, old)
         THEN new \o Replace(SubSeq(s, Len(old) + 1, Len(s)), old, new)
         ELSE <<Head(s)>> \o Replace(Tail(s), old, new)

\* the value st.file_uploader returns: the single file of the slot, or None
file_uploader(files) ==
    IF files = {} THEN None ELSE Some(CHOOSE f \in files : TRUE)

\* variant: the widget keeps earlier files (accept_multiple_files)
Pick_accumulate(files, f) == files \cup {f}

\* the files the upload widget holds after the user picks f (single slot)
Pick(files, f) == {f}

\* variant: builds a media part even for an absent file
prepare_image_unguarded(file) ==
    IF file # None
    THEN Some(<<[mime_type |-> file[1].type, data |-> file[1].data]>>)
    ELSE Some(<<[mime_type |-> "", data |-> <<>>]>>)

\* variant: gives up on files declared image/png
prepare_image_jpeg_only(file) ==
    IF file # None /\ file[1].type # "image/png"
    THEN Some(<<[mime_type |-> file[1].type, data |-> file[1].data]>>)
    ELSE None

\* variant: reuses the media part of the request answered before
prepare_image_cached(file) ==
    IF file = None THEN None
    ELSE IF served # None THEN Some(<<served[1][1]>>)
    ELSE Some(<<[mime_type |-> file[1].type, data |-> file[1].data]>>)

prepare_image(file) ==
    IF file # None
    THEN Some(<<[mime_type |-> file[1].type, data |-> file[1].data]>>)
    ELSE None

\* the argument list of generate_content at line 20
GenerateArgs(image, text) == <<image[1], text>>

\* variant: one retry after a failed attempt
GenerateCalls_retry(o) ==
    IF o.at = "construct" THEN 0 ELSE IF o.kind = "fail" THEN 2 ELSE 1

\* how often get_gemini_response invokes generate_content for one outcome
GenerateCalls(o) == IF o.at = "construct" THEN 0 ELSE 1

\* variant: the exception's message without the prefix
get_gemini_response_bare(o) == o.msg

\* the value get_gemini_response returns for what the service did
get_gemini_response(o) ==
    IF o.kind = "ok" THEN o.msg ELSE ErrorPrefix \o o.msg

\* variant: markup characters are escaped before the substitution
FormatResponse_escaped(r) ==
    Replace(Replace(Replace(r, <<"<">>, <<"&", "l", "t", ";">>), <<NL>>, BR),
            <<BULLET>>, <<DIAMOND>>)

\* response.replace('\n', '<br>').replace(BULLET, DIAMOND)
FormatResponse(r) == Replace(Replace(r, <<NL>>, BR), <<BULLET>>, <<DIAMOND>>)

(***************************************************************************)
(* Pages                                                                   *)
(***************************************************************************)
BlankPage ==
    [preview |-> None, button |-> FALSE, spinner |-> FALSE, banner |-> FALSE,
     result |-> None, placeholder |-> FALSE, footer |-> FALSE, fault |-> FALSE]

PlaceholderPage == [BlankPage EXCEPT !.placeholder = TRUE, !.footer = TRUE]

LoadedPage(file) ==
    [BlankPage EXCEPT !.preview = file, !.button = TRUE, !.footer = TRUE]

BusyPage(file) ==
    [BlankPage EXCEPT !.preview = file, !.button = TRUE, !.spinner = TRUE]

\* Image.open raised at line 78: nothing after it is rendered
FaultPage == [BlankPage EXCEPT !.fault = TRUE]

\* variant: an error string is shown without the success banner
ResultPage_error_style(file, r) ==
    [BlankPage EXCEPT !.preview = file, !.button = TRUE,
                      !.banner = ~StartsWith(r, ErrorPrefix),
                      !.result = Some(FormatResponse(r)), !.footer = TRUE]

\* lines 115-137: banner, result markup, footer
ResultPage(file, r) ==
    [BlankPage EXCEPT !.preview = file, !.button = TRUE, !.banner = TRUE,
                      !.result = Some(FormatResponse(r)), !.footer = TRUE]

(***************************************************************************)
(* State machine                                                           *)
(***************************************************************************)
Init ==
    /\ picker = {}
    /\ pending = "none"
    /\ pc = "idle"
    /\ trigger = FALSE
    /\ uploaded_file = None
    /\ analyze_button = FALSE
    /\ inflight = <<>>
    /\ outcome = None
    /\ response = None
    /\ page = PlaceholderPage
    /\ clicks = 0
    /\ calls = 0
    /\ attempts = 0
    /\ failed = FALSE
    /\ served = None

ScriptFree == pc = "idle" /\ pending = "none"

\* main() from its first line to the blocking call, or to its end
RunScript(files, clicked) ==
    LET uf == file_uploader(files) IN
    /\ trigger' = clicked
    /\ uploaded_file' = uf
    /\ outcome' = None
    /\ response' = None
    /\ attempts' = 0
    /\ UNCHANGED <<failed, served>>
    /\ IF uf = None
       THEN /\ analyze_button' = FALSE
            /\ page' = PlaceholderPage
            /\ UNCHANGED <<pc, inflight, calls>>
       ELSE IF ~Decodable(uf[1])
       THEN /\ analyze_button' = FALSE
            /\ page' = FaultPage
            /\ UNCHANGED <<pc, inflight, calls>>
       ELSE /\ analyze_button' = clicked
            /\ IF clicked /\ prepare_image(uf) # None
               THEN /\ pc' = "calling"
                    /\ inflight' =
                          Append(inflight, GenerateArgs(prepare_image(uf)[1], prompt))
                    /\ calls' = calls + 1
                    /\ page' = BusyPage(uf)
               ELSE /\ page' = LoadedPage(uf)
                    /\ UNCHANGED <<pc, inflight, calls>>

\* a widget event: re-run now, or queue one rerun while the script is busy
Rerun(files, clicked) ==
    IF ScriptFree
    THEN /\ RunScript(files, clicked)
         /\ pending' = "none"
    ELSE /\ pending' = IF clicked \/ pending = "click" THEN "click" ELSE "rerun"
         /\ UNCHANGED <<pc, trigger, uploaded_file, analyze_button, inflight,
                        outcome, response, page, calls, attempts, failed,
                        served>>

SelectFile(f) ==
    /\ f.ext \in AcceptedTypes
    /\ picker # {f}
    /\ picker' = Pick(picker, f)
    /\ clicks' = clicks
    /\ Rerun(picker', FALSE)

ClearFile ==
    /\ picker # {}
    /\ picker' = {}
    /\ clicks' = clicks
    /\ Rerun(picker', FALSE)

ClickAnalyze ==
    /\ page.button
    /\ clicks < MaxClicks
    /\ clicks' = clicks + 1
    /\ picker' = picker
    /\ Rerun(picker, TRUE)

\* get_gemini_response returns and main() runs to its end (lines 114-137)
Return(o) ==
    /\ pc = "calling"
    /\ pc' = "idle"
    /\ inflight' = Tail(inflight)
    /\ outcome' = Some(o)
    /\ attempts' = attempts + GenerateCalls(o)
    /\ failed' = (failed \/ o.kind = "fail")
    /\ served' = Some(Head(inflight))
    /\ response' = Some(get_gemini_response(o))
    /\ page' = ResultPage(uploaded_file, get_gemini_response(o))
    /\ UNCHANGED <<picker, pending, trigger, uploaded_file, analyze_button,
                   clicks, calls>>

CallSucceeds == \E o \in Outcomes : o.kind = "ok" /\ Return(o)

CallFails == \E o \in Outcomes : o.kind = "fail" /\ Return(o)

\* the queued rerun starts once the running script has ended
RunPending ==
    /\ pc = "idle"
    /\ pending # "none"
    /\ pending' = "none"
    /\ RunScript(picker, pending = "click")
    /\ UNCHANGED <<picker, clicks>>

Next ==
    \/ \E f \in CandidateFiles : SelectFile(f)
    \/ ClearFile
    \/ ClickAnalyze
    \/ CallSucceeds
    \/ CallFails
    \/ RunPending

Spec == Init /\ [][Next]_vars

(***************************************************************************)
(* Properties                                                              *)
(***************************************************************************)
\* what one character of the response looks like in the markup
ShownChar(c) ==
    IF c = NL THEN BR ELSE IF c = BULLET THEN <<DIAMOND>> ELSE <<c>>

RECURSIVE Shown(_)
Shown(t) == IF t = <<>> THEN <<>> ELSE ShownChar(Head(t)) \o Shown(Tail(t))

Failed == outcome # None /\ outcome[1].kind = "fail"

Succeeded == outcome # None /\ outcome[1].kind = "ok"

\* C1: the analysis call is made only with an uploaded image present:
\* prepare_image returns None exactly for an absent file, and a run that finds
\* the upload slot empty, clicked or not, makes no call and shows the
\* placeholder.
C1_NoImageNoCall ==
    /\ prepare_image(None) = None
    /\ \A f \in CandidateFiles : prepare_image(Some(f)) # None
    /\ inflight # <<>> => uploaded_file # None
    /\ uploaded_file = None =>
          /\ pc = "idle"
          /\ inflight = <<>>
          /\ outcome = None
          /\ page = PlaceholderPage

\* a click was delivered to a run that found no image
C1_Witness ==
    /\ trigger
    /\ uploaded_file = None
    /\ pc = "idle"
    /\ page.placeholder
    /\ calls < clicks

\* C2 as stated: after a failed call with message m the response is
\* "Error: " m and the rendered result is exactly "Error: " m.
C2_RenderedIsErrorMessage ==
    (pc = "idle" /\ Failed) =>
        /\ response = Some(ErrorPrefix \o outcome[1].msg)
        /\ page.result = Some(ErrorPrefix \o outcome[1].msg)

\* C2 amended: after a failed call with message m, wherever it failed, the
\* response is "Error: " m, the run ends without a fault, and the rendered
\* result is "Error: " m with its newlines shown as <br> and its bullets as
\* diamonds.
C2_ErrorCaptured ==
    (pc = "idle" /\ Failed) =>
        /\ response = Some(ErrorPrefix \o outcome[1].msg)
        /\ ~page.fault
        /\ page.footer
        /\ page.result = Some(ErrorPrefix \o Shown(outcome[1].msg))

\* reading response.text failed with a message holding a newline
C2_Witness ==
    /\ pc = "idle"
    /\ Failed
    /\ outcome[1].at = "text"
    /\ outcome[1].msg = <<"A", NL>>
    /\ page.result = Some(ErrorPrefix \o <<"A", "<", "b", "r", ">">>)

\* C3: a shown result or error always leaves the action button on the page,
\* and every click made while no script is running starts a run that makes
\* a new call, whether or not an earlier call failed.
C3_AlwaysRestartable ==
    /\ [](ScriptFree /\ page.result # None =>
              page.button /\ ~page.fault /\ picker # {})
    /\ [][(ScriptFree /\ clicks' = clicks + 1) =>
              (pc' = "calling" /\ calls' = calls + 1 /\ Len(inflight') = 1)]_vars

\* a new call is running after an earlier one failed
C3_Witness == failed /\ pc = "calling" /\ calls = 2

\* C4: calls never exceed clicks, and one call makes at most one attempt at
\* generate_content, failed or not.
C4_OneAttemptPerClick ==
    /\ calls <= clicks
    /\ attempts <= 1

\* generate_content failed and was tried once
C4_Witness ==
    /\ pc = "idle"
    /\ Failed
    /\ outcome[1].at = "generate"
    /\ attempts = 1
    /\ calls = clicks

\* C5: the markup of a returned text is that text with each newline shown as
\* <br>, each bullet as a diamond, and every other character as it is.
C5_SubstitutionOnly ==
    (pc = "idle" /\ Succeeded) =>
        /\ response = Some(outcome[1].msg)
        /\ page.result = Some(Shown(outcome[1].msg))

\* a text with a markup character and a bullet
C5_Witness ==
    /\ pc = "idle"
    /\ Succeeded
    /\ outcome[1].msg = <<"<", BULLET>>
    /\ page.result = Some(<<"<", DIAMOND>>)

\* C6: the request in flight is the pair (media part, prompt) of the file the
\* run read from the upload slot, type and bytes as uploaded, and that file is
\* the one in the slot when the call is made.
C6_RequestFromCurrentImage ==
    /\ [](pc = "calling" =>
              /\ uploaded_file # None
              /\ inflight = << <<[mime_type |-> uploaded_file[1].type,
                                  data |-> uploaded_file[1].data], prompt>> >>)
    /\ [][calls' = calls + 1 => picker' = {uploaded_file'[1]}]_vars

\* a second request in flight whose image differs from the one before
C6_Witness ==
    /\ pc = "calling"
    /\ served # None
    /\ served[1][1].data # inflight[1][1].data
    /\ served[1][1].mime_type # inflight[1][1].mime_type

\* C7 as stated: picking a new image while a result or error is shown gives
\* the ImageLoaded page of the new image, with no result.
C7_NewImageLoaded ==
    [][(ScriptFree /\ page.result # None /\ picker' # picker /\ picker' # {}) =>
          (\E f \in picker' : page' = LoadedPage(Some(f)))]_vars

\* the part of C7 that does not depend on the new file's bytes: the run
\* started by picking another file, or by clearing the slot, shows no result
C7_NoStaleResult ==
    [][(ScriptFree /\ page.result # None /\ picker' # picker) =>
          (page'.result = None /\ ~page'.banner /\ pc' = "idle")]_vars

\* C8: the upload slot holds at most one file and at most one request is in
\* flight, also while user events arrive during the call.
C8_SingleSlotSingleCall ==
    /\ Cardinality(picker) <= 1
    /\ Len(inflight) <= 1
    /\ (pc = "calling") = (Len(inflight) = 1)

\* the user replaced the image and clicked while the call was outstanding
C8_Witness ==
    /\ pc = "calling"
    /\ pending = "click"
    /\ picker # {}
    /\ Some(CHOOSE f \in picker : TRUE) # uploaded_file

\* C9 as stated: picking any file the picker accepts on the empty page gives
\* the preview and the action button, without a fault.
C9_AcceptedFileLoads ==
    [][(ScriptFree /\ picker = {} /\ picker' # {}) =>
          (\E f \in picker' :
              /\ f.ext \in AcceptedTypes
              /\ page'.preview = Some(f)
              /\ page'.button
              /\ ~page'.fault)]_vars

\* C10: after a call the page is the same whether the call returned text or
\* an error string: banner, result markup of the response, preview, button.
C10_ErrorLooksLikeResult ==
    (pc = "idle" /\ outcome # None) =>
        /\ page.banner
        /\ page.result = Some(Shown(response[1]))
        /\ [page EXCEPT !.result = None] =
               [LoadedPage(uploaded_file) EXCEPT !.banner = TRUE]

\* an error string with a bullet under the success banner
C10_Witness ==
    /\ pc = "idle"
    /\ Failed
    /\ page.banner
    /\ outcome[1].msg = <<BULLET>>
    /\ page.result = Some(ErrorPrefix \o <<DIAMOND>>)
=============================================================================
